---- MODULE Spec2Model ----
(***************************************************************************)
(* Model of bank_parser_and_dashboard.py: the ingestion of bank statement  *)
(* spreadsheets found in the working directory into one ledger workbook.   *)
(*                                                                         *)
(* Text (file names, cell values, column labels) is a sequence of          *)
(* one-character strings, so that the substring tests, the case folding    *)
(* and the trimming of the program are computed and not assumed.           *)
(***************************************************************************)
EXTENDS Integers, Sequences, FiniteSets, TLC

\* ------------------------------------------------------------------ text

UpperLetters ==
    <<"A","B","C","D","E","F","G","H","I","J","K","L","M",
      "N","O","P","Q","R","S","T","U","V","W","X","Y","Z">>

LowerLetters ==
    <<"a","b","c","d","e","f","g","h","i","j","k","l","m",
      "n","o","p","q","r","s","t","u","v","w","x","y","z">>

DigitChars == <<"0","1","2","3","4","5","6","7","8","9">>

\* A sequence given as a function, as the tuple of its elements.
AsTuple(f) == SubSeq(f, 1, Len(f))

UpperSet == {UpperLetters[i] : i \in 1..26}

\* str.lower() on one character
LowerChar(c) ==
    IF c \in UpperSet
      THEN LowerLetters[CHOOSE i \in 1..26 : UpperLetters[i] = c]
      ELSE c

\* str.lower()
Lower(s) == AsTuple([i \in 1..Len(s) |-> LowerChar(s[i])])

\* Python: sub in s
Contains(sub, s) ==
    \E i \in 0..(Len(s) - Len(sub)) : SubSeq(s, i + 1, i + Len(sub)) = sub

\* str.startswith / str.endswith
StartsWith(s, pre) == Len(pre) <= Len(s) /\ SubSeq(s, 1, Len(pre)) = pre

EndsWith(s, suf) ==
    Len(suf) <= Len(s) /\ SubSeq(s, Len(s) - Len(suf) + 1, Len(s)) = suf

\* str.strip(): leading and trailing blanks removed
Strip(s) ==
    LET keep == {i \in 1..Len(s) : s[i] # " "}
    IN  IF keep = {} THEN <<>>
        ELSE LET lo == CHOOSE i \in keep : \A j \in keep : i <= j
                 hi == CHOOSE i \in keep : \A j \in keep : j <= i
             IN  SubSeq(s, lo, hi)

\* str.strip("()")
StripParens(s) ==
    LET keep == {i \in 1..Len(s) : s[i] \notin {"(", ")"}}
    IN  IF keep = {} THEN <<>>
        ELSE LET lo == CHOOSE i \in keep : \A j \in keep : i <= j
                 hi == CHOOSE i \in keep : \A j \in keep : j <= i
             IN  SubSeq(s, lo, hi)

\* str.replace(old, new): every non-overlapping occurrence, left to right
RECURSIVE Replace(_, _, _)
Replace(s, old, new) ==
    IF Len(s) < Len(old) \/ Len(old) = 0 THEN s
    ELSE IF SubSeq(s, 1, Len(old)) = old
           THEN new \o Replace(SubSeq(s, Len(old) + 1, Len(s)), old, new)
           ELSE <<s[1]>> \o Replace(Tail(s), old, new)

\* str.split(sep) for a one-character separator
RECURSIVE Split(_, _)
Split(s, sep) ==
    LET at == {i \in 1..Len(s) : s[i] = sep}
    IN  IF at = {} THEN <<s>>
        ELSE LET i == CHOOSE k \in at : \A j \in at : k <= j
             IN  <<SubSeq(s, 1, i - 1)>> \o Split(SubSeq(s, i + 1, Len(s)), sep)

IsDigits(s) == Len(s) > 0 /\ \A i \in 1..Len(s) : \E d \in 1..10 : DigitChars[d] = s[i]

DigitVal(c) == (CHOOSE d \in 1..10 : DigitChars[d] = c) - 1

RECURSIVE NatOf(_)
NatOf(s) ==
    IF Len(s) = 0 THEN 0
    ELSE 10 * NatOf(SubSeq(s, 1, Len(s) - 1)) + DigitVal(s[Len(s)])

\* os.path.basename
Basename(p) ==
    LET at == {i \in 1..Len(p) : p[i] = "/"}
    IN  IF at = {} THEN p
        ELSE SubSeq(p, (CHOOSE i \in at : \A j \in at : j <= i) + 1, Len(p))

\* os.path.splitext: the extension starts at the last dot of the base name,
\* unless only dots come before it
Splitext(p) ==
    LET b0   == Len(p) - Len(Basename(p))
        dots == {i \in (b0 + 1)..Len(p) : p[i] = "."}
    IN  IF dots = {} THEN <<p, <<>>>>
        ELSE LET d == CHOOSE i \in dots : \A j \in dots : j <= i
             IN  IF \E k \in (b0 + 1)..(d - 1) : p[k] # "."
                   THEN <<SubSeq(p, 1, d - 1), SubSeq(p, d, Len(p))>>
                   ELSE <<p, <<>>>>


\* ------------------------------------------------------- cells and values

\* An empty spreadsheet cell (pandas NaN); also the value of a column that
\* a frame was built with from None.
NaN == <<"NaN">>

\* pick_column's None
NoLabel == <<"None">>

\* find_header_row's None
None == 0 - 1

\* pd.NaT
NaT == 0

Num(v) == [na |-> FALSE, v |-> v]

NaNum == [na |-> TRUE, v |-> 0]

\* Series.astype(str) on one cell
AsStr(c) == IF c = NaN THEN <<"n","a","n">> ELSE c

SetMin(S) == CHOOSE x \in S : \A y \in S : x <= y

\* float(text), for the integral amounts of the model's sheets: surrounding
\* blanks, an optional sign, digits. Anything else raises ValueError.
float_of(t) ==
    IF Len(t) > 0 /\ t[1] \in {"-", "+"}
      THEN [ok |-> IsDigits(Tail(t)),
            v  |-> IF ~IsDigits(Tail(t)) THEN 0
                   ELSE IF t[1] = "-" THEN 0 - NatOf(Tail(t)) ELSE NatOf(Tail(t))]
      ELSE [ok |-> IsDigits(t), v |-> IF IsDigits(t) THEN NatOf(t) ELSE 0]

Float(s) == float_of(Strip(s))

\* try: return sign * float(...) / except: return np.nan
num_or_nan(f, sign) == IF f.ok THEN Num(sign * f.v) ELSE NaNum

\* to_num from line 26 on, s being str(x).strip().replace(",", "")
to_num_text(s) ==
    IF Len(s) = 0 THEN NaNum
    ELSE IF Len(s) >= 2 /\ s[1] = "(" /\ s[Len(s)] = ")"
      THEN num_or_nan(Float(StripParens(s)), 0 - 1)
      ELSE num_or_nan(Float(Strip(Replace(Replace(Replace(s, <<"D","r">>, <<>>),
                                                  <<"C","R">>, <<>>), <<"C","r">>, <<>>))), 1)

to_num(x) ==
    IF x = NaN THEN NaNum ELSE to_num_text(Replace(Strip(x), <<",">>, <<>>))

MonthAbbr ==
    <<<<"j","a","n">>, <<"f","e","b">>, <<"m","a","r">>, <<"a","p","r">>, <<"m","a","y">>, <<"j","u","n">>,
      <<"j","u","l">>, <<"a","u","g">>, <<"s","e","p">>, <<"o","c","t">>, <<"n","o","v">>, <<"d","e","c">>>>

IsLeap(y) == (y % 4 = 0 /\ y % 100 # 0) \/ y % 400 = 0

DaysIn(m, y) ==
    IF m = 2 THEN (IF IsLeap(y) THEN 29 ELSE 28)
    ELSE IF m \in {4, 6, 9, 11} THEN 30 ELSE 31

NoValue == [ok |-> FALSE, v |-> 0]

\* One directive of a strptime format against one part of the text, n being
\* the number the part spells when it is all digits.
directive_value(d, part, n) ==
    CASE d = "d" -> IF IsDigits(part) /\ Len(part) <= 2 /\ n \in 1..31
                      THEN [ok |-> TRUE, v |-> n] ELSE NoValue
      [] d = "m" -> IF IsDigits(part) /\ Len(part) <= 2 /\ n \in 1..12
                      THEN [ok |-> TRUE, v |-> n] ELSE NoValue
      [] d = "Y" -> IF IsDigits(part) /\ Len(part) = 4 /\ n >= 1
                      THEN [ok |-> TRUE, v |-> n] ELSE NoValue
      [] d = "y" -> IF IsDigits(part) /\ Len(part) = 2
                      THEN [ok |-> TRUE, v |-> IF n >= 69 THEN 1900 + n ELSE 2000 + n]
                      ELSE NoValue
      [] d = "b" -> IF \E i \in 1..12 : MonthAbbr[i] = part
                      THEN [ok |-> TRUE, v |-> CHOOSE i \in 1..12 : MonthAbbr[i] = part]
                      ELSE NoValue
      [] OTHER   -> NoValue

Directive(d, part) ==
    directive_value(d, Lower(part), IF IsDigits(part) THEN NatOf(part) ELSE 0)

\* The date of a day, a month and a year that the directives gave, as
\* year*10000 + month*100 + day; datetime raises on a day the month lacks.
make_date(day, mon, yr) ==
    IF day.ok /\ mon.ok /\ yr.ok /\ day.v <= DaysIn(mon.v, yr.v)
      THEN [ok |-> TRUE, v |-> yr.v * 10000 + mon.v * 100 + day.v]
      ELSE NoValue

\* The three values in the order day, month, year, for a format whose first
\* directive is first.
order_date(first, a, b, c) ==
    IF first = "Y" THEN make_date(c, b, a) ELSE make_date(a, b, c)

strptime_parts(parts, fmt) ==
    IF Len(parts) # 3 THEN NoValue
    ELSE order_date(fmt[2], Directive(fmt[2], parts[1]),
                    Directive(fmt[5], parts[2]), Directive(fmt[8], parts[3]))

\* datetime.strptime(src, fmt) for the formats of parse_date, each
\* "%a<sep>%b<sep>%c": ok = FALSE is the ValueError of a text that does not
\* match or names no calendar day.
Strptime(src, fmt) == strptime_parts(Split(src, fmt[3]), fmt)

fmts ==
    <<<<"%","d",",","%","m",",","%","Y">>, <<"%","d",",","%","m",",","%","y">>, <<"%","d","-","%","m","-","%","Y">>, <<"%","d","-","%","m","-","%","y">>,
      <<"%","d","/","%","m","/","%","Y">>, <<"%","d","/","%","m","/","%","y">>, <<"%","d",".","%","m",".","%","Y">>, <<"%","d",".","%","m",".","%","y">>,
      <<"%","d"," ","%","b"," ","%","Y">>, <<"%","d","-","%","b","-","%","Y">>, <<"%","Y","-","%","m","-","%","d">>>>

\* pd.to_datetime(s, errors="coerce", dayfirst=True) on the texts that no
\* format of fmts matched; the texts of the model's sheets that get here
\* ("Total", "x", ...) are no dates.
to_datetime_coerce(s) == NaT

\* The loop over fmts from position i: the first format that parses wins.
RECURSIVE try_formats(_, _, _)
try_or_next(r, s, s_norm, i) == IF r.ok THEN r.v ELSE try_formats(s, s_norm, i + 1)

try_formats(s, s_norm, i) ==
    IF i > Len(fmts) THEN to_datetime_coerce(s)
    ELSE try_or_next(Strptime(IF Contains(<<"%",",">>, fmts[i]) THEN s ELSE s_norm, fmts[i]),
                     s, s_norm, i)

parse_date_text(s) ==
    try_formats(s, Replace(Replace(Replace(s, <<",">>, <<"-">>), <<".">>, <<"-">>), <<"/">>, <<"-">>), 1)

parse_date(x) == IF x = NaN THEN NaT ELSE parse_date_text(Strip(x))

\* ------------------------------------------------------- file classifier

kOpTransactionHistory == <<"o","p","t","r","a","n","s","a","c","t","i","o","n","h","i","s","t","o","r","y">>

kAxisAccount == <<"9","1","8","0","1","0","0","5","3","3","8","8","9","0","7">>

detect_bank(file_name) ==
    LET name == Lower(file_name)
    IN  IF Contains(kOpTransactionHistory, name) \/ Contains(<<"i","c","i","c","i">>, name) THEN "ICICI"
        ELSE IF Contains(kAxisAccount, name) \/ Contains(<<"a","x","i","s">>, name) THEN "AXIS"
        ELSE IF Contains(<<"3","8","9","5">>, name) THEN "HDFC1"
        ELSE IF Contains(<<"7","6","7","1">>, name) THEN "HDFC2"
        ELSE "UNKNOWN"

\* ------------------------------------------------------- files and sheets

\* What a directory entry holds. kind "sheet": a spreadsheet whose first sheet
\* is grid, a sequence of rows of cells; "corrupt": a file read_excel cannot
\* read; "book": the output workbook (its Transactions and Parse_Log sheets);
\* "absent": no such file.
Absent == [kind |-> "absent", grid |-> <<>>, trans |-> <<>>, log |-> <<>>]

Corrupt == [kind |-> "corrupt", grid |-> <<>>, trans |-> <<>>, log |-> <<>>]

Sheet(g) == [kind |-> "sheet", grid |-> g, trans |-> <<>>, log |-> <<>>]

Book(t, l) == [kind |-> "book", grid |-> <<>>, trans |-> t, log |-> l]

\* The label pandas gives a header cell that is empty.
Unnamed(j) == <<"U","n","n","a","m","e","d",":"," ">> \o <<DigitChars[j + 1]>>

Raise == [ok |-> FALSE, columns |-> <<>>, data |-> <<>>]

\* pd.read_excel(path, header=hdr): the row hdr (0-based) gives the column
\* labels, the rows after it the data. Raises on an unreadable file and when
\* the sheet has rows but not that many; an empty sheet is an empty frame.
\* (The sheets of the model repeat no label within a row.)
read_excel(content, hdr) ==
    IF content.kind # "sheet" THEN Raise
    ELSE IF Len(content.grid) = 0 THEN [ok |-> TRUE, columns |-> <<>>, data |-> <<>>]
    ELSE IF hdr >= Len(content.grid) THEN Raise
    ELSE LET row == content.grid[hdr + 1]
         IN  [ok      |-> TRUE,
              columns |-> AsTuple([j \in 1..Len(row) |->
                             IF row[j] = NaN THEN Unnamed(j - 1) ELSE row[j]]),
              data    |-> SubSeq(content.grid, hdr + 2, Len(content.grid))]

\* DataFrame.to_excel(path, index=False): the labels, then the data.
to_excel(df) ==
    Sheet(IF Len(df.columns) = 0 THEN <<>> ELSE <<df.columns>> \o df.data)

\* ------------------------------------------------------- header utilities

\* The rows of the scan are those read with header=None, nrows=search_rows;
\* the result is the 0-based index of the first row in which every keyword is
\* a substring of some lower-cased cell, or None.
RECURSIVE find_header_scan(_, _, _, _)
find_header_scan(raw, keywords, i, n) ==
    IF i > n THEN None
    ELSE IF \A k \in 1..Len(keywords) :
              \E j \in 1..Len(raw[i]) : Contains(keywords[k], Lower(AsStr(raw[i][j])))
           THEN i - 1
           ELSE find_header_scan(raw, keywords, i + 1, n)

find_header_row(content, keywords, search_rows) ==
    find_header_scan(content.grid, keywords, 1,
                     IF Len(content.grid) < search_rows THEN Len(content.grid)
                     ELSE search_rows)

\* The inner loop of pick_column: the columns, left to right, for one synonym.
RECURSIVE pick_scan_columns(_, _, _, _)
pick_scan_columns(cols, lower, opt, i) ==
    IF i > Len(lower) THEN NoLabel
    ELSE IF Contains(opt, lower[i]) THEN cols[i]
    ELSE pick_scan_columns(cols, lower, opt, i + 1)

\* The outer loop of pick_column: the synonyms in the order given; the first
\* one for which the inner loop returns ends the search.
RECURSIVE pick_scan_options(_, _, _, _)
pick_or_next(got, cols, lower, options, o) ==
    IF got # NoLabel THEN got ELSE pick_scan_options(cols, lower, options, o + 1)

pick_scan_options(cols, lower, options, o) ==
    IF o > Len(options) THEN NoLabel
    ELSE pick_or_next(pick_scan_columns(cols, lower, options[o], 1),
                      cols, lower, options, o)

\* cols: the labels as str(c).strip(); lower: the same, lower-cased.
pick_in(cols, options) ==
    pick_scan_options(cols, AsTuple([i \in 1..Len(cols) |-> Lower(cols[i])]), options, 1)

\* A search with the loops exchanged: the columns left to right, and for each
\* the synonyms.
pick_column_by_column(columns, options) ==
    LET cols == AsTuple([i \in 1..Len(columns) |-> Strip(columns[i])])
        hit  == {i \in 1..Len(cols) :
                   \E o \in 1..Len(options) : Contains(options[o], Lower(cols[i]))}
    IN  IF hit = {} THEN NoLabel ELSE cols[SetMin(hit)]

pick_column(columns, options) ==
    pick_in(AsTuple([i \in 1..Len(columns) |-> Strip(columns[i])]), options)

\* ------------------------------------------------------- parsers

\* Python's or, on find_header_row's result: None and 0 are both falsy.
PyOr(a, b) == IF a = None \/ a = 0 THEN b ELSE a

\* df.get(label): the column of that exact label, or None (has = FALSE) when
\* label is None or no column carries it.
df_get(df, label) ==
    IF label = NoLabel \/ \A j \in 1..Len(df.columns) : df.columns[j] # label
      THEN [has |-> FALSE, vals |-> <<>>]
      ELSE [has  |-> TRUE,
            vals |-> AsTuple([r \in 1..Len(df.data) |->
                       df.data[r][CHOOSE j \in 1..Len(df.columns) :
                                     /\ df.columns[j] = label
                                     /\ \A k \in 1..(j - 1) : df.columns[k] # label]])]

NoFrame == [ok |-> FALSE, rows |-> <<>>, resolved |-> {}]

Fields == {"Date", "Description", "Ref", "Debit", "Credit", "Balance"}

\* pd.DataFrame({"Date": ..., ..., "Balance": ...}) from the six columns col
\* that df.get returned, n being the number of data rows: a ValueError when
\* all six are None (only scalars and no index); otherwise a None is
\* repeated for every row.
data_frame(col, n) ==
    IF \A f \in Fields : ~col[f].has THEN NoFrame
    ELSE [ok       |-> TRUE,
          resolved |-> {f \in Fields : col[f].has},
          rows     |-> AsTuple([r \in 1..n |->
                          [f \in Fields |-> IF col[f].has THEN col[f].vals[r] ELSE NaN]])]

\* The frame an adapter builds from df with its synonym lists: each field is
\* df.get(pick_column(df, synonyms)).
resolve(df, options) == df_get(df, pick_column(df.columns, options))

canonical_frame(df, syn) ==
    data_frame([Date        |-> resolve(df, syn.Date),
                Description |-> resolve(df, syn.Description),
                Ref         |-> resolve(df, syn.Ref),
                Debit       |-> resolve(df, syn.Debit),
                Credit      |-> resolve(df, syn.Credit),
                Balance     |-> resolve(df, syn.Balance)],
               Len(df.data))

AxisKeywords == <<<<"t","r","a","n"," ","d","a","t","e">>, <<"p","a","r","t","i","c","u","l","a","r","s">>, <<"d","r">>, <<"c","r">>, <<"b","a","l">>>>

HdfcKeywords == <<<<"d","a","t","e">>, <<"n","a","r","r","a","t","i","o","n">>, <<"w","i","t","h","d","r","a","w","a","l">>, <<"d","e","p","o","s","i","t">>, <<"b","a","l","a","n","c","e">>>>

IciciKeywords ==
    <<<<"t","r","a","n","s","a","c","t","i","o","n"," ","d","a","t","e">>, <<"t","r","a","n","s","a","c","t","i","o","n"," ","r","e","m","a","r","k","s">>, <<"w","i","t","h","d","r","a","w","a","l">>, <<"d","e","p","o","s","i","t">>, <<"b","a","l","a","n","c","e">>>>

AxisSyn ==
    [Date        |-> <<<<"t","r","a","n"," ","d","a","t","e">>, <<"d","a","t","e">>>>,
     Description |-> <<<<"p","a","r","t","i","c","u","l","a","r","s">>, <<"d","e","s","c","r","i","p","t","i","o","n">>>>,
     Ref         |-> <<<<"c","h","q">>, <<"r","e","f">>>>,
     Debit       |-> <<<<"d","r">>, <<"d","e","b","i","t">>, <<"w","i","t","h","d","r","a","w","a","l">>>>,
     Credit      |-> <<<<"c","r">>, <<"c","r","e","d","i","t">>, <<"d","e","p","o","s","i","t">>>>,
     Balance     |-> <<<<"b","a","l">>, <<"b","a","l","a","n","c","e">>>>]

HdfcSyn ==
    [Date        |-> <<<<"d","a","t","e">>>>,
     Description |-> <<<<"n","a","r","r","a","t","i","o","n">>, <<"d","e","s","c","r","i","p","t","i","o","n">>>>,
     Ref         |-> <<<<"r","e","f">>, <<"c","h","e","q","u","e">>>>,
     Debit       |-> <<<<"w","i","t","h","d","r","a","w","a","l">>, <<"d","e","b","i","t">>>>,
     Credit      |-> <<<<"d","e","p","o","s","i","t">>, <<"c","r","e","d","i","t">>>>,
     Balance     |-> <<<<"b","a","l","a","n","c","e">>>>]

IciciSyn ==
    [Date        |-> <<<<"t","r","a","n","s","a","c","t","i","o","n"," ","d","a","t","e">>, <<"d","a","t","e">>>>,
     Description |-> <<<<"t","r","a","n","s","a","c","t","i","o","n"," ","r","e","m","a","r","k","s">>, <<"d","e","s","c","r","i","p","t","i","o","n">>, <<"p","a","r","t","i","c","u","l","a","r","s">>>>,
     Ref         |-> <<<<"c","h","e","q","u","e">>, <<"r","e","f">>>>,
     Debit       |-> <<<<"w","i","t","h","d","r","a","w","a","l">>, <<"d","e","b","i","t">>>>,
     Credit      |-> <<<<"d","e","p","o","s","i","t">>, <<"c","r","e","d","i","t">>>>,
     Balance     |-> <<<<"b","a","l","a","n","c","e">>>>]

FallbackSyn ==
    [Date        |-> <<<<"d","a","t","e">>>>,
     Description |-> <<<<"d","e","s","c","r","i","p","t","i","o","n">>, <<"n","a","r","r","a","t","i","o","n">>, <<"r","e","m","a","r","k","s">>>>,
     Ref         |-> <<<<"r","e","f">>, <<"c","h","q">>>>,
     Debit       |-> <<<<"d","e","b","i","t">>, <<"w","i","t","h","d","r","a","w","a","l">>>>,
     Credit      |-> <<<<"c","r","e","d","i","t">>, <<"d","e","p","o","s","i","t">>>>,
     Balance     |-> <<<<"b","a","l","a","n","c","e">>>>]

AxisDefaultRow == 0

HdfcDefaultRow == 20

IciciDefaultRow == 12

SearchRows == 80

\* The header row a bank adapter re-reads the sheet with, found being what
\* find_header_row returned: found or default.
header_row(found, default) == PyOr(found, default)

read_frame(df, syn) == IF df.ok THEN canonical_frame(df, syn) ELSE NoFrame

adapter_result(fr, found, hdr) ==
    [ok |-> fr.ok, rows |-> fr.rows, resolved |-> fr.resolved,
     found |-> found, hdr |-> hdr]

read_with_header(content, found, hdr, syn) ==
    adapter_result(read_frame(read_excel(content, hdr), syn), found, hdr)

adapter_found(content, found, default, syn) ==
    read_with_header(content, found, header_row(found, default), syn)

\* A bank adapter: find_header_row (which raises on an unreadable file),
\* or-ed with the bank's default, read_excel with that header, the canonical
\* frame.
\* found and hdr are the adapter's find_header_row result and its hdr.
bank_adapter(content, keywords, default, syn) ==
    IF content.kind # "sheet" THEN adapter_result(NoFrame, None, None)
    ELSE adapter_found(content, find_header_row(content, keywords, SearchRows),
                       default, syn)

parse_axis(content) == bank_adapter(content, AxisKeywords, AxisDefaultRow, AxisSyn)

parse_hdfc(content) == bank_adapter(content, HdfcKeywords, HdfcDefaultRow, HdfcSyn)

parse_icici(content) == bank_adapter(content, IciciKeywords, IciciDefaultRow, IciciSyn)

\* Lines 150-155: the adapter of a bank other than UNKNOWN.
parse_bank(bank, content) ==
    IF bank = "AXIS" THEN parse_axis(content)
    ELSE IF bank \in {"HDFC1", "HDFC2"} THEN parse_hdfc(content)
    ELSE parse_icici(content)

\* The generic adapter: the sheet's first row is the header.
parse_fallback(content) == read_frame(read_excel(content, 0), FallbackSyn)

\* ------------------------------------------------------- wrapper

\* Lines 15-19: the file is read and re-saved as new_path. ok = FALSE when
\* the read raises (nothing is written then).
convert(file_path, new_path, df, d) ==
    IF df.ok
      THEN [ok |-> TRUE, path |-> new_path, dir |-> [d EXCEPT ![new_path] = to_excel(df)]]
      ELSE [ok |-> FALSE, path |-> file_path, dir |-> d]

\* ensure_xlsx on a directory d (a function from file names to what they
\* hold): a path whose extension is .xls in any case is converted to
\* base + ".xlsx".
ensure_xlsx_ext(file_path, base_ext, d) ==
    IF Lower(base_ext[2]) = <<".","x","l","s">>
      THEN convert(file_path, base_ext[1] \o <<".","x","l","s","x">>, read_excel(d[file_path], 0), d)
      ELSE [ok |-> TRUE, path |-> file_path, dir |-> d]

ensure_xlsx(file_path, d) == ensure_xlsx_ext(file_path, Splitext(file_path), d)

\* The bank stamped on a file's rows and log entry.
stamp_bank(path) == detect_bank(Basename(path))

\* Lines 162-166: the coerced columns and the Bank column of one row.
clean_row(r, bank) ==
    [Date        |-> parse_date(r.Date),
     Description |-> r.Description,
     Ref         |-> r.Ref,
     Debit       |-> to_num(r.Debit),
     Credit      |-> to_num(r.Credit),
     Balance     |-> to_num(r.Balance),
     Bank        |-> bank]

\* Line 169: the rows whose Date is not NaT.
RECURSIVE dropna(_)
dropna(rows) ==
    IF Len(rows) = 0 THEN <<>>
    ELSE (IF Head(rows).Date = NaT THEN <<>> ELSE <<Head(rows)>>) \o dropna(Tail(rows))

clean_rows(rows, bank) ==
    dropna(AsTuple([i \in 1..Len(rows) |-> clean_row(rows[i], bank)]))

\* Lines 149-160: first is what the adapter of the bank returned (for
\* UNKNOWN, parse_fallback) and again what parse_fallback returns in the
\* except branch.
try_adapters(first, again) ==
    IF first.ok THEN [ok |-> TRUE, rows |-> first.rows, resolved |-> first.resolved,
                      found |-> first.found, hdr |-> first.hdr, fellBack |-> FALSE]
    ELSE [ok |-> again.ok, rows |-> again.rows, resolved |-> again.resolved,
          found |-> first.found, hdr |-> first.hdr, fellBack |-> TRUE]

adapters(bank, content, fallback) ==
    IF bank = "UNKNOWN"
      THEN [ok |-> fallback.ok, rows |-> fallback.rows, resolved |-> fallback.resolved,
            found |-> None, hdr |-> None, fellBack |-> TRUE]
      ELSE try_adapters(parse_bank(bank, content), fallback)

\* parse_file from line 162 on. raised: an exception left parse_file (out of
\* ensure_xlsx, or out of the parse_fallback of the except branch). frame:
\* the rows returned and the dtype of their Date column (an apply over no
\* rows keeps the object dtype; over rows it gives datetime64). entry: the
\* entry appended to logs. The other fields record what was called.
parsed(f, conv, bank, got, rows) ==
    [f        |-> f,
     raised   |-> ~conv.ok \/ ~got.ok,
     dir      |-> conv.dir,
     path     |-> conv.path,
     bank     |-> bank,
     adapter  |-> IF ~conv.ok THEN "none"
                  ELSE IF bank = "UNKNOWN" THEN "fallback" ELSE bank,
     found    |-> got.found,
     hdr      |-> got.hdr,
     fellBack |-> conv.ok /\ got.fellBack,
     readable |-> conv.dir[conv.path].kind = "sheet",
     resolved |-> got.resolved,
     frame    |-> [rows  |-> rows,
                   dtype |-> IF Len(got.rows) = 0 THEN "object" ELSE "datetime64"],
     entry    |-> [File        |-> Basename(conv.path),
                   Bank        |-> bank,
                   RowsParsed  |-> Len(rows),
                   RowsDropped |-> Len(got.rows) - Len(rows)]]

\* A Bank column that names the adapter: UNKNOWN for what parse_fallback gave.
bank_column_by_adapter(bank, fellBack) == IF fellBack THEN "UNKNOWN" ELSE bank

\* Line 166: the value of the Bank column, whichever adapter gave the frame
\* (fellBack: it was parse_fallback).
bank_column(bank, fellBack) == bank

parse_cleaned(f, conv, bank, got) ==
    parsed(f, conv, bank, got, clean_rows(got.rows, bank_column(bank, got.fellBack)))

parse_as(f, conv, bank) ==
    parse_cleaned(f, conv, bank,
                  adapters(bank, conv.dir[conv.path], parse_fallback(conv.dir[conv.path])))

parse_converted(f, conv) == parse_as(f, conv, stamp_bank(conv.path))

\* parse_file(f, logs) on directory d.
parse_file(f, d) == parse_converted(f, ensure_xlsx(f, d))

\* ------------------------------------------------------- dashboard

RECURSIVE concat(_)
concat(fs) == IF Len(fs) = 0 THEN <<>> ELSE Head(fs).rows \o concat(Tail(fs))

\* The dtypes pd.concat can give the Date column. Frames of one dtype keep
\* it. With both, pandas up to 2.x leaves the empty frames out of the result
\* dtype (datetime64) and pandas 3 does not (object): keeps_empty says which.
concat_dtype(fs, keeps_empty) ==
    LET ds == {fs[i].dtype : i \in 1..Len(fs)}
    IN  IF ds = {"datetime64"} THEN "datetime64"
        ELSE IF ds = {"object"} THEN "object"
        ELSE IF keeps_empty THEN "object" ELSE "datetime64"

\* sort_values("Date"): the default sort is not stable, so rows of one date
\* come in an order the build decides: as they were (tie "kept") or the
\* other way round (tie "reversed").
RECURSIVE sort_values(_, _)
sort_values(rows, tie) ==
    IF Len(rows) = 0 THEN <<>>
    ELSE LET lo   == SetMin({rows[i].Date : i \in 1..Len(rows)})
             at   == {i \in 1..Len(rows) : rows[i].Date = lo}
             pick == IF tie = "kept" THEN SetMin(at)
                     ELSE CHOOSE i \in at : \A j \in at : j <= i
         IN  <<rows[pick]>> \o
             sort_values(SubSeq(rows, 1, pick - 1) \o
                         SubSeq(rows, pick + 1, Len(rows)), tie)

RECURSIVE NatText(_)
NatText(n) ==
    IF n < 10 THEN <<DigitChars[n + 1]>>
    ELSE NatText(n \div 10) \o <<DigitChars[(n % 10) + 1]>>

MonthNames ==
    <<<<"J","a","n">>, <<"F","e","b">>, <<"M","a","r">>, <<"A","p","r">>, <<"M","a","y">>, <<"J","u","n">>,
      <<"J","u","l">>, <<"A","u","g">>, <<"S","e","p">>, <<"O","c","t">>, <<"N","o","v">>, <<"D","e","c">>>>

\* strftime("%b-%Y")
month_label(date) == MonthNames[(date \div 100) % 100] \o <<"-">> \o NatText(date \div 10000)

fillna0(x) == IF x.na THEN 0 ELSE x.v

\* One row of the Transactions sheet: Type, Amount, Month and the two blank
\* columns after Description are added.
transaction(r) ==
    [Date        |-> r.Date,
     Description |-> r.Description,
     Category    |-> <<>>,
     SubCategory |-> <<>>,
     Ref         |-> r.Ref,
     Debit       |-> r.Debit,
     Credit      |-> r.Credit,
     Balance     |-> r.Balance,
     Bank        |-> r.Bank,
     Type        |-> IF fillna0(r.Debit) > 0 THEN "Expense"
                     ELSE IF fillna0(r.Credit) > 0 THEN "Income"
                     ELSE "Other",
     Amount      |-> fillna0(r.Credit) - fillna0(r.Debit),
     Month       |-> month_label(r.Date)]

derive(s) == AsTuple([i \in 1..Len(s) |-> transaction(s[i])])

\* The Transactions sheet: the rows sorted by Date, then the derived columns.
transactions(consolidated, tie) == derive(sort_values(consolidated, tie))

\* ------------------------------------------------------- main: the files

OUTPUT_XLSX == <<"P","e","r","s","o","n","a","l","_","E","x","p","e","n","s","e","_","T","r","a","c","k","e","r",".","x","l","s","x">>

\* The filter of os.listdir(".") in main.
is_input(f) ==
    /\ EndsWith(Lower(f), <<".","x","l","s">>) \/ EndsWith(Lower(f), <<".","x","l","s","x">>)
    /\ f # OUTPUT_XLSX
    /\ ~StartsWith(f, <<"~","$">>)

RECURSIVE Perms(_)
Perms(S) ==
    IF S = {} THEN {<<>>}
    ELSE UNION {{<<x>> \o p : p \in Perms(S \ {x})} : x \in S}

\* os.listdir gives the names in an arbitrary order.
listings(d) == Perms({f \in DOMAIN d : d[f].kind # "absent" /\ is_input(f)})

\* ------------------------------------------------------- the directories

\* HDFC layout, header in the first row; two dated rows.
SheetTop ==
    Sheet(<<<<<<"D","a","t","e">>, <<"N","a","r","r","a","t","i","o","n">>, <<"W","i","t","h","d","r","a","w","a","l">>, <<"D","e","p","o","s","i","t">>, <<"B","a","l","a","n","c","e">>>>,
            <<<<"1","-","2","-","2","3">>, <<"r","e","n","t">>, <<"5","0","0">>, NaN, <<"1",",","5","0","0">>>>,
            <<<<"0","3","/","0","2","/","2","0","2","3">>, <<"p","a","y">>, NaN, <<"9","0","0"," ","C","r">>, <<"2",",","4","0","0">>>>>>)

\* HDFC layout under one row of branding.
SheetNoise ==
    Sheet(<<<<<<"S","t","a","t","e","m","e","n","t">>, NaN, NaN, NaN, NaN>>,
            <<<<"D","a","t","e">>, <<"N","a","r","r","a","t","i","o","n">>, <<"W","i","t","h","d","r","a","w","a","l">>, <<"D","e","p","o","s","i","t">>, <<"B","a","l","a","n","c","e">>>>,
            <<<<"5",".","2",".","2","3">>, <<"f","e","e">>, <<"(","1","0",")">>, NaN, <<"9","9","0">>>>>>)

\* AXIS layout, header in the first row; a dated row and a footer row.
SheetAxis ==
    Sheet(<<<<<<"T","r","a","n"," ","D","a","t","e">>, <<"C","H","Q","N","O">>, <<"P","A","R","T","I","C","U","L","A","R","S">>, <<"D","R">>, <<"C","R">>, <<"B","A","L">>>>,
            <<<<"0","1","-","0","2","-","2","0","2","3">>, NaN, <<"a","t","m">>, <<"2","0","0"," ","D","r">>, NaN, <<"8","0","0">>>>,
            <<<<"T","o","t","a","l">>, NaN, NaN, <<"2","0","0">>, NaN, NaN>>>>)

\* A date column whose label ends in a blank.
SheetPadded == Sheet(<<<<<<"D","a","t","e"," ">>, <<"N","a","r","r","a","t","i","o","n">>>>, <<<<"1","-","2","-","2","3">>, <<"x">>>>>>)

\* A header row and no transactions.
SheetHeaderOnly == Sheet(<<<<<<"D","a","t","e">>, <<"N","a","r","r","a","t","i","o","n">>>>>>)

\* No column that any synonym names.
SheetJunk == Sheet(<<<<<<"f","o","o">>, <<"b","a","r">>>>, <<<<"1">>, <<"2">>>>>>)

Contents ==
    {SheetTop, SheetNoise, SheetAxis, SheetPadded, SheetHeaderOnly, SheetJunk, Corrupt}

InputNames == {<<"3","8","9","5",".","X","L","S">>, <<"3","8","9","5",".","x","l","s","x">>, <<"a","x","i","s",".","x","l","s","x">>, <<"i","c","i","c","i",".","x","l","s","x">>, <<"u",".","x","l","s","x">>}

LockFile == <<"~","$","u",".","x","l","s","x">>

NotesFile == <<"n","o","t","e","s",".","t","x","t">>

AllNames == InputNames \cup {OUTPUT_XLSX, LockFile, NotesFile}

\* The most input files a directory starts with.
MaxFiles == 2

\* The directories a run starts in: a lock file and a text file, at most
\* MaxFiles of the input names, each holding any of contents; no output yet.
Directories(names, contents, most) ==
    LET picks == UNION {[S -> contents] :
                          S \in {T \in SUBSET names : Cardinality(T) <= most}}
    IN  {[f \in AllNames |->
            IF f \in DOMAIN a THEN a[f]
            ELSE IF f \in {LockFile, NotesFile} THEN Corrupt ELSE Absent] :
         a \in picks}

\* ------------------------------------------------------- main: the run

VARIABLES
    dir,           \* the working directory: file name -> what it holds
    dir0,          \* the directory the first run started in
    env,           \* what the build decides: tie order of the sort, concat dtype rule
    pc,            \* "start", "loop", then "saved", "empty" or "raised"
    files,         \* main's files
    idx,           \* the position of the for loop in files (1-based)
    frames,        \* main's frames
    logs,          \* main's logs
    hist,          \* what parse_file did for each file so far, in order
    consolidated,  \* main's consolidated (rows), once the loop is over
    ledger,        \* the Transactions sheet of this run (none: <<>>)
    mode,          \* "first", or how the second run was started
    ledger1,       \* the Transactions sheet of the first run
    call           \* a call of pick_column on its own: arguments and result

vars == <<dir, dir0, env, pc, files, idx, frames, logs, hist, consolidated,
          ledger, mode, ledger1, call>>

Unset == [set |-> FALSE, tie |-> "kept", keeps_empty |-> FALSE]

Envs == [set : {TRUE}, tie : {"kept", "reversed"}, keeps_empty : BOOLEAN]

Terminal == {"saved", "empty", "raised"}

NoCall == [columns |-> <<>>, options |-> <<>>, result |-> NoLabel]

InitIn(dirs) ==
    /\ dir \in dirs
    /\ dir0 = dir
    /\ env = Unset
    /\ pc = "start"
    /\ files = <<>>
    /\ idx = 1
    /\ frames = <<>>
    /\ logs = <<>>
    /\ hist = <<>>
    /\ consolidated = <<>>
    /\ ledger = <<>>
    /\ mode = "first"
    /\ ledger1 = <<>>
    /\ call = NoCall

Init == InitIn(Directories(InputNames, Contents, MaxFiles))

\* Line 260-261.
ListDir ==
    /\ pc = "start"
    /\ files' \in listings(dir)
    /\ idx' = 1
    /\ frames' = <<>>
    /\ logs' = <<>>
    /\ hist' = <<>>
    /\ consolidated' = <<>>
    /\ ledger' = <<>>
    /\ pc' = "loop"
    /\ UNCHANGED <<dir, dir0, env, mode, ledger1, call>>

\* A loop that gives up at the first exception: the position jumps past the
\* last file.
after_skip_break(i, n) == n + 1

\* What the except branch of main's loop does with the loop position: the
\* for statement goes on with the next file.
after_skip(i, n) == i + 1

\* One iteration of the loop whose parse_file returns: lines 262-264.
ParseYield ==
    /\ pc = "loop"
    /\ idx <= Len(files)
    /\ \E r \in {parse_file(files[idx], dir)} :
           /\ ~r.raised
           /\ dir' = r.dir
           /\ frames' = Append(frames, r.frame)
           /\ logs' = Append(logs, r.entry)
           /\ hist' = Append(hist, r)
    /\ idx' = idx + 1
    /\ UNCHANGED <<dir0, env, pc, files, consolidated, ledger, mode, ledger1, call>>

\* One iteration of the loop whose parse_file raises: lines 262-266. What
\* ensure_xlsx wrote before the exception stays written.
ParseSkip ==
    /\ pc = "loop"
    /\ idx <= Len(files)
    /\ \E r \in {parse_file(files[idx], dir)} :
           /\ r.raised
           /\ dir' = r.dir
           /\ hist' = Append(hist, r)
    /\ idx' = after_skip(idx, Len(files))
    /\ UNCHANGED <<dir0, env, pc, files, frames, logs, consolidated, ledger,
                   mode, ledger1, call>>

\* Lines 267-268.
ReturnEmpty ==
    /\ pc = "loop"
    /\ idx > Len(files)
    /\ frames = <<>>
    /\ pc' = "empty"
    /\ UNCHANGED <<dir, dir0, env, files, idx, frames, logs, hist, consolidated,
                   ledger, mode, ledger1, call>>

\* Lines 269-271 when build_dashboard returns: the Date column is datetime64,
\* so .dt is there, and the workbook is written.
Build ==
    /\ pc = "loop"
    /\ idx > Len(files)
    /\ frames # <<>>
    /\ \E e \in (IF env.set THEN {env} ELSE Envs) :
          /\ concat_dtype(frames, e.keeps_empty) = "datetime64"
          /\ env' = e
          /\ consolidated' = concat(frames)
          /\ ledger' = transactions(consolidated', e.tie)
          /\ dir' = [dir EXCEPT ![OUTPUT_XLSX] = Book(ledger', logs)]
    /\ pc' = "saved"
    /\ UNCHANGED <<dir0, files, idx, frames, logs, hist, mode, ledger1, call>>

\* Lines 269-270 when build_dashboard raises at line 202: .dt on a Date
\* column of dtype object is an AttributeError, before the writer is opened.
BuildRaises ==
    /\ pc = "loop"
    /\ idx > Len(files)
    /\ frames # <<>>
    /\ \E e \in (IF env.set THEN {env} ELSE Envs) :
          /\ concat_dtype(frames, e.keeps_empty) = "object"
          /\ env' = e
          /\ consolidated' = concat(frames)
    /\ pc' = "raised"
    /\ UNCHANGED <<dir, dir0, files, idx, frames, logs, hist, ledger, mode, ledger1, call>>

\* main is run again in the directory the first run left.
Rerun ==
    /\ pc \in Terminal
    /\ mode = "first"
    /\ mode' = "rerun"
    /\ ledger1' = ledger
    /\ pc' = "start"
    /\ UNCHANGED <<dir, dir0, env, files, idx, frames, logs, hist, consolidated, ledger, call>>

\* main is run on the same input files as the first run, listed anew.
Relist ==
    /\ pc \in Terminal
    /\ mode = "first"
    /\ mode' = "relisted"
    /\ ledger1' = ledger
    /\ dir' = dir0
    /\ pc' = "start"
    /\ UNCHANGED <<dir0, env, files, idx, frames, logs, hist, consolidated, ledger, call>>

Run == ListDir \/ ParseYield \/ ParseSkip \/ ReturnEmpty \/ Build \/ BuildRaises

Next == Run

Spec == Init /\ [][Next]_vars


\* ------------------------------------------------------- a run of main over several files

SeveralNames == {<<"3","8","9","5",".","X","L","S">>, <<"a","x","i","s",".","x","l","s","x">>, <<"i","c","i","c","i",".","x","l","s","x">>, <<"u",".","x","l","s","x">>}

SeveralContents == {SheetTop, SheetHeaderOnly, Corrupt}

\* The most input files of a directory of SpecSeveral.
MaxSeveral == 3

InitSeveral == InitIn(Directories(SeveralNames, SeveralContents, MaxSeveral))

SpecSeveral == InitSeveral /\ [][Next]_vars

\* ------------------------------------------------------- two runs of main

TwiceNames == {<<"3","8","9","5",".","X","L","S">>, <<"3","8","9","5",".","x","l","s","x">>, <<"a","x","i","s",".","x","l","s","x">>, <<"u",".","x","l","s","x">>}

TwiceContents == {SheetTop, SheetAxis, SheetHeaderOnly, Corrupt}

InitTwice == InitIn(Directories(TwiceNames, TwiceContents, MaxFiles))

NextTwice == Run \/ Rerun \/ Relist

SpecTwice == InitTwice /\ [][NextTwice]_vars

\* ------------------------------------------------------- pick_column on its own

PickLabels == {<<"D","a","t","e">>, <<" ","T","x","n"," ","D","a","t","e">>, <<"V","A","L","U","E"," ","D","T"," ">>, <<"N","a","r","r","a","t","i","o","n">>}

PickSynonyms == {<<"d","a","t","e">>, <<"t","x","n">>, <<"d","t">>, <<"n","a","r","r">>}

\* The most columns of a frame and the most synonyms of a list in SpecPick.
MaxColumns == 3

MaxOptions == 2

SeqsUpTo(S, n) == UNION {[1..k -> S] : k \in 0..n}

Calls ==
    [columns : SeqsUpTo(PickLabels, MaxColumns),
     options : SeqsUpTo(PickSynonyms, MaxOptions),
     result  : {NoLabel}]

InitPick ==
    /\ dir = [f \in AllNames |-> Absent]
    /\ dir0 = dir
    /\ env = Unset
    /\ pc = "call"
    /\ files = <<>>
    /\ idx = 1
    /\ frames = <<>>
    /\ logs = <<>>
    /\ hist = <<>>
    /\ consolidated = <<>>
    /\ ledger = <<>>
    /\ mode = "first"
    /\ ledger1 = <<>>
    /\ call \in Calls

\* pick_column is called and returns.
PickColumn ==
    /\ pc = "call"
    /\ call' = [call EXCEPT !.result = pick_column(call.columns, call.options)]
    /\ pc' = "returned"
    /\ UNCHANGED <<dir, dir0, env, files, idx, frames, logs, hist, consolidated,
                   ledger, mode, ledger1>>

NextPick == PickColumn

SpecPick == InitPick /\ [][NextPick]_vars

\* ------------------------------------------------------- properties

\* The rows main hands to build_dashboard if every file of h was processed:
\* those of the files whose parse_file returned, in the order of h.
RECURSIVE YieldedRows(_)
YieldedRows(h) ==
    IF Len(h) = 0 THEN <<>>
    ELSE (IF Head(h).raised THEN <<>> ELSE Head(h).frame.rows) \o YieldedRows(Tail(h))

\* C1: when the loop of main is over, parse_file has been called on every
\* enumerated file, in order, also on those after a file whose parse_file
\* raised, and the consolidated rows are the rows of all the files whose
\* parse_file returned, those before a skipped file and those after it.
C1_FailureIsolation ==
    (pc \in Terminal) =>
        /\ Len(hist) = Len(files)
        /\ \A i \in 1..Len(files) : hist[i].f = files[i]
        /\ Len(frames) = Cardinality({i \in 1..Len(hist) : ~hist[i].raised})
        /\ pc # "empty" => consolidated = YieldedRows(hist)

\* Three files: the second raises out of parse_file, the first and the third
\* give rows, and the rows of both are in the consolidated ledger.
C1_Witness ==
    /\ pc = "saved"
    /\ Len(hist) = 3
    /\ ~hist[1].raised /\ hist[2].raised /\ ~hist[3].raised
    /\ Len(hist[1].frame.rows) > 0
    /\ Len(hist[3].frame.rows) > 0
    /\ consolidated = hist[1].frame.rows \o hist[3].frame.rows

\* C2: whenever parse_file calls parse_fallback on a readable sheet, it
\* returns a frame, whatever fields it resolves, so parse_file does not raise.
C2_FallbackNeverFails ==
    \A i \in 1..Len(hist) : (hist[i].fellBack /\ hist[i].readable) => ~hist[i].raised

\* C3: a run ends with the output workbook written if and only if at least
\* one file yielded a frame.
C3_OutputIffFrame ==
    (pc \in Terminal) => ((dir[OUTPUT_XLSX].kind = "book") <=> (Len(frames) > 0))

\* C4: at the end of a run the parse log has one entry per enumerated file,
\* and no two entries carry the same File.
C4_OneEntryPerFile ==
    (pc \in Terminal) =>
        /\ Len(logs) = Len(files)
        /\ \A i, j \in 1..Len(logs) : i # j => logs[i].File # logs[j].File

\* C5: for every file whose parse_file returned, the Bank of its log entry
\* and of each of its rows is detect_bank of the enumerated file name, also
\* when the rows came from parse_fallback after the bank adapter raised.
C5_BankFromFileName ==
    \A i \in 1..Len(hist) :
        ~hist[i].raised =>
            /\ hist[i].entry.Bank = detect_bank(hist[i].f)
            /\ \A r \in 1..Len(hist[i].frame.rows) :
                   hist[i].frame.rows[r].Bank = detect_bank(hist[i].f)

\* The adapter of HDFC1 raised, parse_fallback gave rows, and they and the
\* log entry carry HDFC1.
C5_Witness ==
    \E i \in 1..Len(hist) :
        /\ ~hist[i].raised
        /\ hist[i].adapter = "HDFC1"
        /\ hist[i].fellBack
        /\ Len(hist[i].frame.rows) > 0
        /\ hist[i].frame.rows[1].Bank = "HDFC1"
        /\ hist[i].entry.Bank = "HDFC1"

\* C6: in a bank adapter, whenever find_header_row returns a row index, also
\* index 0, the sheet is re-read with that row as the header row.
C6_DefaultOnlyIfNotFound ==
    \A i \in 1..Len(hist) :
        (hist[i].adapter \in {"AXIS", "HDFC1", "HDFC2", "ICICI"} /\ hist[i].found # None)
            => hist[i].hdr = hist[i].found

\* The synonyms of a call that match a column (as a substring of its
\* trimmed, lower-cased label), and the columns a synonym matches.
MatchedBy(c, o) ==
    {i \in 1..Len(c.columns) : Contains(c.options[o], Lower(Strip(c.columns[i])))}

Matching(c) == {o \in 1..Len(c.options) : MatchedBy(c, o) # {}}

\* C7: pick_column returns None exactly when no synonym matches a column;
\* otherwise it returns the (trimmed) label of the leftmost column matched by
\* the first synonym, in list order, that matches any column.
C7_PickPriority ==
    (pc = "returned") =>
        IF Matching(call) = {} THEN call.result = NoLabel
        ELSE /\ call.result # NoLabel
             /\ call.result =
                  Strip(call.columns[SetMin(MatchedBy(call, SetMin(Matching(call))))])

\* The later synonym matches the column further left, and the earlier
\* synonym wins.
C7_Witness ==
    /\ pc = "returned"
    /\ call.columns = <<<<"N","a","r","r","a","t","i","o","n">>, <<" ","T","x","n"," ","D","a","t","e">>>>
    /\ call.options = <<<<"d","a","t","e">>, <<"n","a","r","r">>>>
    /\ call.result = <<"T","x","n"," ","D","a","t","e">>

\* C8: a second run of main in the directory the first run left gives the
\* ledger of the first run.
C8_Idempotent ==
    (mode = "rerun" /\ pc \in Terminal) => ledger = ledger1

\* C9: a run over the same input files enumerated in any order gives the
\* same ledger, rows and order.
C9_OrderIndependent ==
    (mode = "relisted" /\ pc \in Terminal) => ledger = ledger1

\* C10: a step of the loop of main, with the conversion ensure_xlsx may do in
\* it, leaves every file that was in the directory as it was.
C10_ConversionPreserves ==
    [][(pc = "loop" /\ idx <= Len(files)) =>
          \A f \in AllNames : dir[f].kind # "absent" => dir'[f] = dir[f]]_vars
====
